---- MODULE Spec2Model ----
(***************************************************************************)
(* The numerical-methods scripts:                                          *)
(*   02_bisection_method.py              bisection on f(x) = x^3 - x - 2   *)
(*   10_boundary_value_problems.py       Newton-Raphson on the same f      *)
(*   04_newton_raphson_drag_cd.py        Newton-Raphson, guard Cd > 0      *)
(*   05_newton_raphson_van_der_waals.py  Newton-Raphson, guard V > b       *)
(*   01_lagrange_interpolation.py        Lagrange interpolation            *)
(*   07_ivp_modified_euler_method.py     modified Euler (predict, correct) *)
(*   08_ivp_rk2_methods.py               four two-stage Runge-Kutta steps  *)
(*   11_bvp_finite_difference.py         -u'' = f by finite differences    *)
(*   12_heat_eq_ftcs.py                  heat equation, explicit           *)
(*   13_heat_eq_crank_nicolson.py        heat equation, Crank-Nicolson     *)
(*   14_wave_eq_explicit_fd.py           wave equation, explicit           *)
(*                                                                         *)
(* Each script is a straight-line program: one run is one behaviour, and   *)
(* pc is the position of the interpreter in the script.                    *)
(*                                                                         *)
(* Arithmetic.  An abscissa (a, b, x_n, Cd_n, V_n ...) is an integer k     *)
(* standing for k/S on a uniform grid; a function value is an exact        *)
(* fraction <<num, den>> with den > 0.  The only rounding is the one of a  *)
(* Newton quotient f/f' to the grid (RoundDiv), which stands for the       *)
(* rounding of the float quotient.  The bisection grid is 2^-MaxIter, so   *)
(* that every midpoint of a run is exact, as it is in binary floating      *)
(* point while the bracket is wider than one ulp.  The other scripts       *)
(* compute on exact fractions throughout (section "float values").         *)
(***************************************************************************)
EXTENDS Integers, Sequences, FiniteSets, TLC

\* ------------------------------------------------------------ bounds ----
\* largest max_iter a run is configured with
MaxIter == 4
\* grid of the Newton-Raphson abscissae: k stands for k/NScale
NScale == 4

\* grid of the bisection abscissae
BScale == 2 ^ MaxIter

\* --------------------------------------------------------- arithmetic ----
Abs(num) == IF num < 0 THEN -num ELSE num

Sgn(num) == IF num < 0 THEN -1 ELSE IF num > 0 THEN 1 ELSE 0

\* least integer >= num/d, for d > 0
CeilDiv(num, d) == -((-num) \div d)

\* num/d rounded to the nearest integer (ties upward), for d # 0
RoundDiv(num, d) ==
    IF d > 0 THEN (2 * num + d) \div (2 * d)
             ELSE (2 * (-num) + (-d)) \div (2 * (-d))

\* abs(fr) < t for fractions fr, t with positive denominators:
\* |num|/d < tn/td  <=>  |num| < tn*d/td  <=>  |num| < ceil(tn*d/td)
AbsLt(fr, t) == Abs(fr[1]) < CeilDiv(t[1] * fr[2], t[2])

\* num/d < 10^-e for num >= 0, d > 0, by the same argument applied e times
RECURSIVE Pow10Lt(_, _, _)
Pow10Lt(num, d, e) ==
    IF e = 0 THEN num < d ELSE Pow10Lt(num, CeilDiv(d, 10), e - 1)

\* abs(fr) < 10^-e
AbsLtPow10(fr, e) == Pow10Lt(Abs(fr[1]), fr[2], e)

\* the element of a one-element set
Only(S) == CHOOSE v \in S : TRUE

\* greatest common divisor of m, k >= 0 (Euclid)
RECURSIVE GCD(_, _)
GCD(m, k) == IF k = 0 THEN m ELSE Only({GCD(k, rem) : rem \in {m % k}})

\* num/d with the common factor of num and d removed
Reduce(num, d) ==
    Only({IF g = 0 THEN <<num, d>> ELSE <<num \div g, d \div g>> :
            g \in {GCD(Abs(num), Abs(d))}})

\* the quotient fr / s of two fractions, in grid units of 1/S, rounded to the
\* grid: (r1 * s2 * S) / (r2 * s1), common factors removed before the
\* products are formed; fr / inf = 0.  s is not zero.
Quot(fr, s, S) ==
    LET p == Reduce(s[2], fr[2])
        v == Reduce(fr[1], s[1])
        w == Reduce(S, p[2])
        z == Reduce(v[1], w[2])
        y == Reduce(p[1], v[2])
    IN  RoundDiv(z[1] * y[1] * w[1], z[2] * y[2])

\* floor(2 * log10(num/d)) for num, d > 0, on N = num^2 and D = d^2:
\* the largest m with 10^m * D <= N
RECURSIVE Log10Sq(_, _)
Log10Sq(N, D) ==
    IF N >= 10 * D THEN 1 + Log10Sq(N, 10 * D)
    ELSE IF N < D THEN Log10Sq(10 * N, D) - 1
    ELSE 0

\* sign of the float product fr * s
SgnMul(fr, s) == Sgn(fr[1]) * Sgn(s[1])

IsPrefix(s, t) == Len(s) <= Len(t) /\ SubSeq(t, 1, Len(s)) = s

\* ------------------------------------------------------ float values ----
\* A float of the interpolation, ODE, BVP and PDE scripts is an exact
\* fraction <<num, den>> in lowest terms with den > 0, or one of the three
\* non-finite values of IEEE arithmetic: <<1, 0>> is inf, <<-1, 0>> is -inf
\* and <<0, 0>> is nan.  Signed zeros are not kept apart.
NaN == <<0, 0>>

Finite(v) == v[2] # 0

FInt(k) == <<k, 1>>

\* num/d as a float, d of either sign; d = 0 gives inf, -inf or nan
Norm(num, d) ==
    IF d = 0 THEN <<Sgn(num), 0>>
    ELSE IF d < 0 THEN Reduce(-num, -d) ELSE Reduce(num, d)

FNeg(v) == <<-v[1], v[2]>>

FAbs(v) == <<Abs(v[1]), v[2]>>

\* v + w: inf + (-inf) and anything + nan are nan
FAdd(v0, w0) ==
    Only({IF v[2] = 0 /\ w[2] = 0 THEN (IF v = w THEN v ELSE NaN)
          ELSE IF v[2] = 0 THEN v
          ELSE IF w[2] = 0 THEN w
          ELSE Only({Norm(v[1] * (w[2] \div g) + w[1] * (v[2] \div g),
                          (v[2] \div g) * w[2]) : g \in {GCD(v[2], w[2])}}) :
            v \in {v0}, w \in {w0}})

FSub(v, w) == FAdd(v, FNeg(w))

\* v * w: 0 * inf and anything * nan are nan
FMul(v0, w0) ==
    Only({IF v[2] = 0 \/ w[2] = 0 THEN <<Sgn(v[1]) * Sgn(w[1]), 0>>
          ELSE Only({Norm(s[1] * t[1], s[2] * t[2]) :
                        s \in {Reduce(v[1], w[2])}, t \in {Reduce(w[1], v[2])}}) :
            v \in {v0}, w \in {w0}})

\* 1 / w as numpy divides: 1/0 is inf (with a warning, no exception),
\* 1/inf is 0, 1/nan is nan
FInv(w) ==
    IF w[2] = 0 THEN (IF w[1] = 0 THEN NaN ELSE <<0, 1>>)
    ELSE IF w[1] = 0 THEN <<1, 0>>
    ELSE IF w[1] < 0 THEN <<-w[2], -w[1]>> ELSE <<w[2], w[1]>>

\* v / w: x/0 is +-inf for x # 0, 0/0 and inf/inf are nan
FDiv(v, w0) == Only({FMul(v, FInv(w)) : w \in {w0}})

\* v <= w and v < w for finite floats, on their common denominator
FLe(v, w) ==
    \E g \in {GCD(v[2], w[2])} : v[1] * (w[2] \div g) <= w[1] * (v[2] \div g)

FLt(v, w) ==
    \E g \in {GCD(v[2], w[2])} : v[1] * (w[2] \div g) < w[1] * (v[2] \div g)

\* ------------------------------------------------------------- state ----
VARIABLES
    prog,       \* the script that runs
    pc,         \* position in the script
    c1, c0,     \* f(x) = x^3 - c1*x - c0 (1 and 2 in the scripts)
    a, b,       \* bisection: the bracket; drag, vdw: the constants a, b
    a0, b0,     \* the values of a, b at the start of the script
    Re,         \* drag: Reynolds number
    P, R, T,    \* vdw: pressure, gas constant, temperature
    x0,         \* Newton-Raphson: the initial guess (x0, Cd0, V0)
    tol, max_iter,
    i,          \* loop index of "for i in range(max_iter)"
    x_n, x_next, fx_n, fpx_n,
    x_values, f_values,
    printed,    \* the outcome messages printed so far
    x_data, y_data, x, result,    \* 01: the arguments and the accumulator
    ode, u0, u_rk2,               \* 08: the right-hand side f, u(0), the four traces
    u_euler,                      \* 07: the trace u (f, u(0) as in 08)
    L, Nx, Nt, alpha, c,          \* 11 - 14: problem parameters
    dx, dt, r,                    \* 11 - 14: step sizes, stability parameter
    profile,                      \* 11: f(x[k]); 12 - 14: sin(pi*x[k]/L)
    u, n,                         \* 11 - 14: the field, the row index
    A, B, rhs, u_interior,        \* 11, 13: the matrices; 11: b, the solved interior
    writes                        \* 12 - 14: writes of the stepping rule, per cell

\* what the root finders leave alone
lagvars == <<x_data, y_data, x, result>>
odevars == <<ode, u0, u_rk2, u_euler>>
gridvars == <<L, Nx, Nt, alpha, c, dx, dt, r, profile>>
fieldvars == <<u, n, A, B, rhs, u_interior, writes>>
rest == <<lagvars, odevars, gridvars, fieldvars>>

\* what the other scripts leave alone
rootvars == <<c1, c0, a, a0, b0, Re, P, R, x0, tol, max_iter,
              x_n, x_next, fx_n, fpx_n, x_values, f_values>>

vars == <<prog, pc, c1, c0, a, b, a0, b0, Re, P, R, T, x0, tol, max_iter, i,
          x_n, x_next, fx_n, fpx_n, x_values, f_values, printed, rest>>

params == <<prog, c1, c0, a0, b0, Re, P, R, T, x0, tol, max_iter>>

\* the tolerances a run is configured with (1e-6 in the scripts)
TolSet == {<<1, 2>>, <<1, 8>>, <<1, 1000000>>}

\* the cubics f(x) = x^3 - c1*x - c0; <<1, 2>> is the scripts' f
CubicSet == {<<1, 2>>, <<3, 2>>, <<3, -7>>}

\* RangeDone off by one: range(max_iter + 1)
RangeDoneLate(k, m) == k = m + 1

\* "for i in range(max_iter)": the range is exhausted before iteration k
RangeDone(k, m) == k = m

\* ---------------------------------------------- 02_bisection_method ----
\* f(x) = x**3 - x - 2 at x = k/S, as a fraction over S^3
f(k, S) == <<k * k * k - c1 * k * S * S - c0 * S * S * S, S * S * S>>

\* Narrow with the two branches exchanged
NarrowSwapped(lo, hi, m) ==
    IF SgnMul(f(m, BScale), f(lo, BScale)) < 0 THEN <<m, hi>> ELSE <<lo, m>>

\* Narrow with the else branch lost: the lower endpoint is never moved
NarrowKeep(lo, hi, m) ==
    IF SgnMul(f(m, BScale), f(lo, BScale)) < 0 THEN <<lo, m>> ELSE <<lo, hi>>

\* the bracket after "if f(x_n) * f(a) < 0: b = x_n else: a = x_n"
Narrow(lo, hi, m) ==
    IF SgnMul(f(m, BScale), f(lo, BScale)) < 0 THEN <<lo, m>> ELSE <<m, hi>>

\* BadBracket with > for >=: a zero at an endpoint passes the check
BadBracketStrict(lo, hi) == SgnMul(f(lo, BScale), f(hi, BScale)) > 0

\* "if f(a) * f(b) >= 0"
BadBracket(lo, hi) == SgnMul(f(lo, BScale), f(hi, BScale)) >= 0

\* BisectStop with the abs() lost: any negative f(x_n) stops the loop
BisectStopNoAbs(lo, hi, m) ==
    \/ f(m, BScale)[1] < CeilDiv(tol[1] * f(m, BScale)[2], tol[2])
    \/ AbsLt(<<hi - lo, 2 * BScale>>, tol)

\* BisectStop with "and" for "or"
BisectStopAnd(lo, hi, m) ==
    AbsLt(f(m, BScale), tol) /\ AbsLt(<<hi - lo, 2 * BScale>>, tol)

\* "abs(f(x_n)) < tol or (b - a) / 2 < tol"
BisectStop(lo, hi, m) ==
    AbsLt(f(m, BScale), tol) \/ AbsLt(<<hi - lo, 2 * BScale>>, tol)

\* Step 3 and 4: the precondition check, then the empty history lists
BisectCheck ==
    /\ prog = "bisect" /\ pc = "start"
    /\ IF BadBracket(a, b)
       THEN /\ printed' = printed \cup {"precondition"}
            /\ pc' = "exited"
       ELSE /\ printed' = printed
            /\ pc' = "loop"
    /\ x_values' = <<>> /\ f_values' = <<>>
    /\ UNCHANGED <<params, rest, a, b, i, x_n, x_next, fx_n, fpx_n>>

\* loop head and lines 49-51: the midpoint is computed and recorded;
\* when range(max_iter) is exhausted the else clause of the for runs
BisectMid ==
    /\ prog = "bisect" /\ pc = "loop"
    /\ IF RangeDone(i, max_iter)
       THEN /\ printed' = printed \cup {"noconv"}
            /\ pc' = "after"
            /\ UNCHANGED <<x_n, x_values, f_values>>
       ELSE /\ x_n' = (a + b) \div 2
            /\ x_values' = Append(x_values, x_n')
            /\ f_values' = Append(f_values, f(x_n', BScale))
            /\ pc' = "test"
            /\ printed' = printed
    /\ UNCHANGED <<params, rest, a, b, i, x_next, fx_n, fpx_n>>

\* lines 54-62: the stop test, else the bracket is halved
BisectTest ==
    /\ prog = "bisect" /\ pc = "test"
    /\ IF BisectStop(a, b, x_n)
       THEN /\ printed' = printed \cup {"root"}
            /\ pc' = "after"
            /\ UNCHANGED <<a, b, i>>
       ELSE /\ a' = Narrow(a, b, x_n)[1]
            /\ b' = Narrow(a, b, x_n)[2]
            /\ i' = i + 1
            /\ pc' = "loop"
            /\ printed' = printed
    /\ UNCHANGED <<params, rest, x_n, x_next, fx_n, fpx_n, x_values, f_values>>

\* Step 6 onwards: the code after the iteration (plot, table)
After ==
    /\ pc = "after"
    /\ pc' = "done"
    /\ UNCHANGED <<params, rest, a, b, i, x_n, x_next, fx_n, fpx_n,
                   x_values, f_values, printed>>

\* ------------------------------------ 10_boundary_value_problems ----
\* f'(x) = 3 * x**2 - 1 at x = k/S, as a fraction over S^2
f_prime(k, S) == <<3 * k * k - c1 * S * S, S * S>>

\* float('inf'), the value f and f_prime return outside the valid domain
Inf == <<1, 0>>

\* the threshold 1e-10 of the derivative test, as a power of ten
DerivTolExp == 10

\* --------------------------------------- 04_newton_raphson_drag_cd ----
\* math.log(10), to one decimal
Ln10 == <<23, 10>>

\* math.log10(Re * Cd) at Cd = k/NScale, in halves (rounded down)
Log10ReCd(k) == Log10Sq((Re * k) * (Re * k), NScale * NScale)

\* f(Cd) = 1/Cd - a*log10(Re*Cd) - b, with a, b in grid units
f_drag(k) ==
    IF k <= 0 THEN Inf
    ELSE <<2 * NScale * NScale - a * Log10ReCd(k) * k - 2 * b * k,
           2 * k * NScale>>

\* f'(Cd) = -1/Cd^2 - a/(Cd * ln(10))
f_prime_drag(k) ==
    IF k <= 0 THEN Inf
    ELSE <<-(Ln10[1] * NScale * NScale + Ln10[2] * a * k), Ln10[1] * k * k>>

\* ------------------------------- 05_newton_raphson_van_der_waals ----
\* f(V) = P*V + a/V - a*b/V^2 - P*b - R*T at V = k/NScale, over NScale*k^2
f_vdw(k) ==
    IF k <= b THEN Inf
    ELSE <<P * k * k * k + a * NScale * k - a * b * NScale
             - P * b * k * k - R * T * NScale * k * k,
           NScale * k * k>>

\* f'(V) = P - a/V^2 + 2*a*b/V^3, over k^3
f_prime_vdw(k) ==
    IF k <= b THEN Inf
    ELSE <<P * k * k * k - a * NScale * k + 2 * a * b * NScale, k * k * k>>

\* ------------------------------------------- the Newton-Raphson loop ----
NRProgs == {"newton", "drag", "vdw"}

\* the f and f_prime of the running script
F(k) ==
    CASE prog = "drag" -> f_drag(k)
      [] prog = "vdw" -> f_vdw(k)
      [] OTHER -> f(k, NScale)

FPrime(k) ==
    CASE prog = "drag" -> f_prime_drag(k)
      [] prog = "vdw" -> f_prime_vdw(k)
      [] OTHER -> f_prime(k, NScale)

\* LeftDomain with < for <=: the boundary value passes the guard
LeftDomainStrict(k) ==
    CASE prog = "drag" -> k < 0
      [] prog = "vdw" -> k < b
      [] OTHER -> FALSE

\* the domain guard: "if Cd_next <= 0" (drag), "if V_next <= b" (vdw);
\* the script of 10_boundary_value_problems has none
LeftDomain(k) ==
    CASE prog = "drag" -> k <= 0
      [] prog = "vdw" -> k <= b
      [] OTHER -> FALSE

\* Degenerate written as "0 < fpx_n < 1e-10": a zero derivative passes
DegenerateSigned(fp) == fp[1] > 0 /\ AbsLtPow10(fp, DerivTolExp)

\* "if abs(fpx_n) < 1e-10"
Degenerate(fp) == AbsLtPow10(fp, DerivTolExp)

\* "x_n - fx_n / fpx_n"
NewtonStep(k, fx, fpx) == k - Quot(fx, fpx, NScale)

\* Converged with "and" for "or"
ConvergedAnd(k, kn) == AbsLt(F(kn), tol) /\ AbsLt(<<kn - k, NScale>>, tol)

\* "abs(f(x_next)) < tol or abs(x_next - x_n) < tol"
Converged(k, kn) == AbsLt(F(kn), tol) \/ AbsLt(<<kn - k, NScale>>, tol)

\* the history lists start with the initial guess; x_n = x0
NRInit ==
    /\ prog \in NRProgs /\ pc = "start"
    /\ x_values' = <<x0>>
    /\ f_values' = <<F(x0)>>
    /\ x_n' = x0
    /\ pc' = "head"
    /\ UNCHANGED <<params, rest, a, b, i, x_next, fx_n, fpx_n, printed>>

\* loop head, f(x_n) and f_prime(x_n), and the derivative test;
\* when range(max_iter) is exhausted the else clause of the for runs
NREval ==
    /\ prog \in NRProgs /\ pc = "head"
    /\ IF RangeDone(i, max_iter)
       THEN /\ printed' = printed \cup {"noconv"}
            /\ pc' = "after"
            /\ UNCHANGED <<fx_n, fpx_n>>
       ELSE /\ fx_n' = F(x_n)
            /\ fpx_n' = FPrime(x_n)
            /\ IF Degenerate(fpx_n')
               THEN /\ printed' = printed \cup {"degenerate"}
                    /\ pc' = "after"
               ELSE /\ printed' = printed
                    /\ pc' = "update"
    /\ UNCHANGED <<params, rest, a, b, i, x_n, x_next, x_values, f_values>>

\* the Newton-Raphson formula, then the domain guard; a float division by
\* zero raises ZeroDivisionError, which nothing catches
NRUpdate ==
    /\ prog \in NRProgs /\ pc = "update"
    /\ IF fpx_n[1] = 0
       THEN /\ pc' = "crashed"
            /\ UNCHANGED <<x_next, printed>>
       ELSE /\ x_next' = NewtonStep(x_n, fx_n, fpx_n)
            /\ IF LeftDomain(x_next')
               THEN /\ printed' = printed \cup {"domain"}
                    /\ pc' = "after"
               ELSE /\ printed' = printed
                    /\ pc' = "record"
    /\ UNCHANGED <<params, rest, a, b, i, x_n, fx_n, fpx_n, x_values, f_values>>

\* NRRecord with the second append lost
NRRecordXOnly ==
    /\ prog \in NRProgs /\ pc = "record"
    /\ x_values' = Append(x_values, x_next)
    /\ pc' = "check"
    /\ UNCHANGED <<params, rest, a, b, i, x_n, x_next, fx_n, fpx_n, printed,
                   f_values>>

\* "store new values for plotting"
NRRecord ==
    /\ prog \in NRProgs /\ pc = "record"
    /\ x_values' = Append(x_values, x_next)
    /\ f_values' = Append(f_values, F(x_next))
    /\ pc' = "check"
    /\ UNCHANGED <<params, rest, a, b, i, x_n, x_next, fx_n, fpx_n, printed>>

\* the convergence test, else x_n = x_next and the next iteration
NRCheck ==
    /\ prog \in NRProgs /\ pc = "check"
    /\ IF Converged(x_n, x_next)
       THEN /\ printed' = printed \cup {"converged"}
            /\ pc' = "after"
            /\ UNCHANGED <<x_n, i>>
       ELSE /\ x_n' = x_next
            /\ i' = i + 1
            /\ pc' = "head"
            /\ printed' = printed
    /\ UNCHANGED <<params, rest, a, b, x_next, fx_n, fpx_n, x_values, f_values>>

\* ----------------------------------------- 01_lagrange_interpolation ----
\* largest number of interpolation nodes of a call
MaxNodes == 3

\* the sequences of length m over S
RECURSIVE SeqsOf(_, _)
SeqsOf(S, m) ==
    IF m = 0 THEN {<<>>} ELSE {Append(s, e) : s \in SeqsOf(S, m - 1), e \in S}

\* abscissae of the nodes (0.0, 0.5, 1.0 ... in the script)
NodeSet == {<<0, 1>>, <<1, 2>>, <<1, 1>>}

\* ordinates of the nodes
ValueSet == {<<-1, 1>>, <<2, 1>>}

\* points the interpolant is evaluated at: the nodes and points between
QuerySet == NodeSet \cup {<<1, 4>>, <<3, 2>>}

\* "for j in range(n): if j != i: term *= (x - x_data[j]) / (x_data[i] -
\* x_data[j])" from index j on, for the basis polynomial of node k (1-based)
RECURSIVE BasisTerm(_, _, _, _, _)
BasisTerm(term, j, xq, xs, k) ==
    IF j > Len(xs) THEN term
    ELSE BasisTerm(IF j # k
                   THEN FMul(term, FDiv(FSub(xq, xs[j]), FSub(xs[k], xs[j])))
                   ELSE term,
                   j + 1, xq, xs, k)

\* the call: result = 0.0, n = len(x_data)
LagrangeCall ==
    /\ prog = "lagrange" /\ pc = "start"
    /\ result' = <<0, 1>> /\ n' = Len(x_data) /\ i' = 0
    /\ pc' = "basis"
    /\ UNCHANGED <<prog, rootvars, b, T, printed, x_data, y_data, x, odevars,
                   gridvars, u, A, B, rhs, u_interior, writes>>

\* LagrangeTerm with "result = term" for "result += term"
LagrangeTermOverwrite ==
    /\ prog = "lagrange" /\ pc = "basis" /\ i < n
    /\ result' = BasisTerm(y_data[i + 1], 1, x, x_data, i + 1)
    /\ i' = i + 1
    /\ UNCHANGED <<prog, pc, rootvars, b, T, printed, x_data, y_data, x,
                   odevars, gridvars, fieldvars>>

\* one pass of "for i in range(n)": term = y_data[i], the inner loop,
\* result += term
LagrangeTerm ==
    /\ prog = "lagrange" /\ pc = "basis" /\ i < n
    /\ result' = FAdd(result, BasisTerm(y_data[i + 1], 1, x, x_data, i + 1))
    /\ i' = i + 1
    /\ UNCHANGED <<prog, pc, rootvars, b, T, printed, x_data, y_data, x,
                   odevars, gridvars, fieldvars>>

\* range(n) is exhausted: return result
LagrangeReturn ==
    /\ prog = "lagrange" /\ pc = "basis" /\ i = n
    /\ pc' = "after"
    /\ UNCHANGED <<prog, rootvars, b, T, i, printed, rest>>

\* ----------------------------------------------- 08_ivp_rk2_methods ----
\* largest number of time steps of a run
MaxNt == 3

\* np.zeros(m)
Zeros(m) == [k \in 1..m |-> <<0, 1>>]

\* the right-hand sides f(t, u) a run integrates: the script's -2u + t, the
\* two fields t and 1 that any second-order scheme integrates exactly, and
\* t^2, on which the schemes of the table differ from one another
OdeSet == {"script", "t", "one", "tt"}

f_ode(t, v) ==
    CASE ode = "t" -> t
      [] ode = "one" -> <<1, 1>>
      [] ode = "tt" -> FMul(t, t)
      [] OTHER -> FAdd(FMul(<<-2, 1>>, v), t)

\* the Butcher tableau coefficients of rk2_step
methods ==
    [heun      |-> [c2 |-> <<1, 1>>, a21 |-> <<1, 1>>, b1 |-> <<1, 2>>, b2 |-> <<1, 2>>],
     midpoint  |-> [c2 |-> <<1, 2>>, a21 |-> <<1, 2>>, b1 |-> <<0, 1>>, b2 |-> <<1, 1>>],
     ralston   |-> [c2 |-> <<2, 3>>, a21 |-> <<2, 3>>, b1 |-> <<1, 4>>, b2 |-> <<3, 4>>],
     classical |-> [c2 |-> <<1, 1>>, a21 |-> <<1, 1>>, b1 |-> <<0, 1>>, b2 |-> <<1, 1>>]]

\* u_next of one step of size h from (t_n, u_n)
rk2_step(t_n, u_n, h, method) ==
    LET coeffs == methods[method]
        k1 == f_ode(t_n, u_n)
        k2 == f_ode(FAdd(t_n, FMul(coeffs.c2, h)),
                    FAdd(u_n, FMul(FMul(coeffs.a21, k1), h)))
    IN  FAdd(u_n, FMul(h, FAdd(FMul(coeffs.b1, k1), FMul(coeffs.b2, k2))))

\* t[k] of np.linspace(0, T, Nt + 1), k from 0
t_grid(k) == Norm(k * T, Nt)

\* Step 6: the four solution arrays, u(0) = u0 in each
RK2Init ==
    /\ prog = "rk2" /\ pc = "start"
    /\ u_rk2' = [m \in DOMAIN methods |-> [Zeros(Nt + 1) EXCEPT ![1] = u0]]
    /\ n' = 0 /\ pc' = "march"
    /\ UNCHANGED <<prog, rootvars, b, T, i, printed, lagvars, ode, u0, u_euler,
                   gridvars, u, A, B, rhs, u_interior, writes>>

\* Step 7: one pass of "for n in range(Nt)", or the end of the loop
RK2Step ==
    /\ prog = "rk2" /\ pc = "march"
    /\ IF n < Nt
       THEN /\ u_rk2' = [m \in DOMAIN methods |->
                            [u_rk2[m] EXCEPT ![n + 2] =
                                rk2_step(t_grid(n), u_rk2[m][n + 1], dt, m)]]
            /\ n' = n + 1 /\ pc' = pc
       ELSE /\ pc' = "after" /\ UNCHANGED <<u_rk2, n>>
    /\ UNCHANGED <<prog, rootvars, b, T, i, printed, lagvars, ode, u0, u_euler,
                   gridvars, u, A, B, rhs, u_interior, writes>>

\* ---------------------------------------- 07_ivp_modified_euler_method ----
\* the loop body with the predicted value taken for the corrected one
euler_update_predictor(t_n, t_next, u_n, h) ==
    FAdd(u_n, FMul(h, f_ode(t_n, u_n)))

\* u[n + 1] of one pass of the loop, from t[n], t[n + 1], u[n] and dt
euler_update(t_n, t_next, u_n, h) ==
    LET k1 == f_ode(t_n, u_n)
        u_predict == FAdd(u_n, FMul(h, k1))
        k2 == f_ode(t_next, u_predict)
    IN  FAdd(u_n, FMul(FDiv(h, <<2, 1>>), FAdd(k1, k2)))

\* Step 5: the solution array, u(0) = u0
MEulerInit ==
    /\ prog = "meuler" /\ pc = "start"
    /\ u_euler' = [Zeros(Nt + 1) EXCEPT ![1] = u0]
    /\ n' = 0 /\ pc' = "march"
    /\ UNCHANGED <<prog, rootvars, b, T, i, printed, lagvars, ode, u0, u_rk2,
                   gridvars, u, A, B, rhs, u_interior, writes>>

\* Step 6: one pass of "for n in range(Nt)", or the end of the loop
MEulerStep ==
    /\ prog = "meuler" /\ pc = "march"
    /\ IF n < Nt
       THEN /\ u_euler' = [u_euler EXCEPT ![n + 2] =
                              euler_update(t_grid(n), t_grid(n + 1),
                                           u_euler[n + 1], dt)]
            /\ n' = n + 1 /\ pc' = pc
       ELSE /\ pc' = "after" /\ UNCHANGED <<u_euler, n>>
    /\ UNCHANGED <<prog, rootvars, b, T, i, printed, lagvars, ode, u0, u_rk2,
                   gridvars, u, A, B, rhs, u_interior, writes>>

\* u_heun[k] as the loop of 08 leaves it, from u0 on the grid of the run
RECURSIVE heun_trace(_)
heun_trace(k) ==
    IF k = 0 THEN u0
    ELSE Only({rk2_step(t_grid(k - 1), v, dt, "heun") : v \in {heun_trace(k - 1)}})

\* u[k] as the loop of 07 leaves it, from u0 on the grid of the run
RECURSIVE euler_trace(_)
euler_trace(k) ==
    IF k = 0 THEN u0
    ELSE Only({euler_update(t_grid(k - 1), t_grid(k), v, dt) :
                   v \in {euler_trace(k - 1)}})

\* ----------------------------------------------------- linear algebra ----
\* s without its k-th element
RemoveAt(s, k) == SubSeq(s, 1, k - 1) \o SubSeq(s, k + 1, Len(s))

\* M without its first row and its k-th column
Minor(M, k) == [rw \in 1..(Len(M) - 1) |-> RemoveAt(M[rw + 1], k)]

\* determinant, expanded along the first row from column k on
RECURSIVE Det(_), DetFrom(_, _)
DetFrom(M, k) ==
    IF k > Len(M) THEN <<0, 1>>
    ELSE IF M[1][k] = <<0, 1>> THEN DetFrom(M, k + 1)
    ELSE FAdd(FMul(IF k % 2 = 1 THEN M[1][k] ELSE FNeg(M[1][k]),
                   Det(Minor(M, k))),
              DetFrom(M, k + 1))

Det(M0) == IF Len(M0) = 0 THEN <<1, 1>> ELSE Only({DetFrom(M, 1) : M \in {M0}})

\* M with its column j replaced by the vector v
ReplaceCol(M, j, v) == [rw \in 1..Len(M) |-> [M[rw] EXCEPT ![j] = v[rw]]]

\* the solution x of M x = v for a non-singular M (np.linalg.solve, spsolve),
\* by Cramer's rule
Solve(M0, v0) ==
    Only({[j \in 1..Len(M) |-> FDiv(Det(ReplaceCol(M, j, v)), dM)] :
            M \in {M0}, v \in {v0}, dM \in {Det(M0)}})

\* row[k]*v[k] + ... + row[Len(v)]*v[Len(v)]
RECURSIVE DotFrom(_, _, _)
DotFrom(row, v, k) ==
    IF k > Len(v) THEN <<0, 1>>
    ELSE FAdd(FMul(row[k], v[k]), DotFrom(row, v, k + 1))

\* M.dot(v)
MatVec(M, v) == [rw \in 1..Len(M) |-> DotFrom(M[rw], v, 1)]

\* the m x m matrix with di on the main diagonal and off on the two
\* neighbouring diagonals (np.diag sums of 11:53, scipy diags of 13:77-78)
Tridiag(m, off, di) ==
    [rw \in 1..m |->
        [cl \in 1..m |-> IF cl = rw THEN di
                         ELSE IF cl = rw + 1 \/ cl = rw - 1 THEN off
                         ELSE <<0, 1>>]]

\* ----------------------------------------- 11_bvp_finite_difference ----
\* what no statement of the script assigns after its parameter section
bvpfixed == <<prog, rootvars, b, T, i, printed, lagvars, odevars, gridvars, n,
              B, writes>>

\* BVPRhs with f taken one grid point to the left: b[i] = f(x[i]) * dx**2
BVPRhsShifted ==
    /\ prog = "bvp" /\ pc = "start"
    /\ rhs' = [k \in 1..(Nx - 2) |-> FMul(profile[k], FMul(dx, dx))]
    /\ pc' = "matrix"
    /\ UNCHANGED <<bvpfixed, u, A, u_interior>>

\* 11:43-45  b[i] = f(x[i + 1]) * (dx ** 2) for i in range(Nx - 2)
BVPRhs ==
    /\ prog = "bvp" /\ pc = "start"
    /\ rhs' = [k \in 1..(Nx - 2) |-> FMul(profile[k + 1], FMul(dx, dx))]
    /\ pc' = "matrix"
    /\ UNCHANGED <<bvpfixed, u, A, u_interior>>

\* 11:51-53  A = np.diag(main_diag) + np.diag(off_diag, 1) + np.diag(off_diag, -1)
BVPMatrix ==
    /\ prog = "bvp" /\ pc = "matrix"
    /\ A' = Tridiag(Nx - 2, <<-1, 1>>, <<2, 1>>)
    /\ pc' = "solve"
    /\ UNCHANGED <<bvpfixed, rhs, u, u_interior>>

\* 11:57  u_interior = np.linalg.solve(A, b)
BVPSolve ==
    /\ prog = "bvp" /\ pc = "solve"
    /\ u_interior' = Solve(A, rhs)
    /\ pc' = "assemble"
    /\ UNCHANGED <<bvpfixed, rhs, u, A>>

\* 11:61-64  u = np.zeros(Nx); u[1:Nx-1] = u_interior; u[0] = 0; u[-1] = 0
BVPAssemble ==
    /\ prog = "bvp" /\ pc = "assemble"
    /\ u' = [[k \in 1..Nx |-> IF 1 < k /\ k < Nx THEN u_interior[k - 1]
                                                ELSE Zeros(Nx)[k]]
                EXCEPT ![1] = <<0, 1>>, ![Nx] = <<0, 1>>]
    /\ pc' = "after"
    /\ UNCHANGED <<bvpfixed, rhs, A, u_interior>>

\* ------------- 12_heat_eq_ftcs, 13_heat_eq_crank_nicolson, 14_wave_eq ----
\* largest number of spatial grid points of a run
MaxNx == 4

PDEProgs == {"ftcs", "cn", "wave"}

\* u[k, j] of a two-dimensional array, k and j counted from 0 as in Python
at(fld, k, j) == fld[k + 1][j + 1]

\* the array after "u[k, j] = v"
SetCell(fld, k, j, v) == [fld EXCEPT ![k + 1][j + 1] = v]

\* u[k, j+1] - 2*u[k, j] + u[k, j-1]
Laplacian(fld, k, j) ==
    FAdd(FSub(at(fld, k, j + 1), FMul(<<2, 1>>, at(fld, k, j))),
         at(fld, k, j - 1))

\* ftcs_update without the term -2*u[n, i]
ftcs_update_no_centre(fld, k, j) ==
    FAdd(at(fld, k, j), FMul(r, FAdd(at(fld, k, j + 1), at(fld, k, j - 1))))

\* 12:70  u[n, i] + r * (u[n, i+1] - 2*u[n, i] + u[n, i-1])
ftcs_update(fld, k, j) == FAdd(at(fld, k, j), FMul(r, Laplacian(fld, k, j)))

\* 14:67  u[0, i] + 0.5 * (r**2) * (u[0, i+1] - 2*u[0, i] + u[0, i-1])
wave_first(fld, j) ==
    FAdd(at(fld, 0, j),
         FMul(FMul(<<1, 2>>, FMul(r, r)), Laplacian(fld, 0, j)))

\* 14:78-79  2*u[n, i] - u[n-1, i] + (r**2) * (u[n, i+1] - 2*u[n, i] + u[n, i-1])
wave_update(fld, k, j) ==
    FAdd(FSub(FMul(<<2, 1>>, at(fld, k, j)), at(fld, k - 1, j)),
         FMul(FMul(r, r), Laplacian(fld, k, j)))

\* Unstable with >= for >
UnstableOrEqual(ratio, limit) == FLe(limit, ratio)

\* "if r > 0.5" (12:43), "if r > 1" (14:42)
Unstable(ratio, limit) == FLt(limit, ratio)

\* Advance with the inner loop left after its first pass
AdvanceSkipRow(k, j) == <<k + 1, 1>>

\* the loop indices after the pass (k, j) of
\* "for n in range(.., Nt): for i in range(1, Nx-1)"
Advance(k, j) == IF j + 1 < Nx - 1 THEN <<k, j + 1>> ELSE <<k + 1, 1>>

\* what no statement of a PDE script assigns after its parameter section
pdefixed == <<prog, rootvars, b, T, lagvars, odevars, gridvars, rhs,
              u_interior>>

\* 12:43-44  the stability check of the explicit heat scheme
HeatStability ==
    /\ prog = "ftcs" /\ pc = "start"
    /\ printed' = IF Unstable(r, <<1, 2>>) THEN printed \cup {"unstable"}
                                            ELSE printed
    /\ pc' = "alloc"
    /\ UNCHANGED <<pdefixed, i, fieldvars>>

\* 14:42-45  the stability check of the wave scheme
WaveStability ==
    /\ prog = "wave" /\ pc = "start"
    /\ printed' = IF Unstable(r, <<1, 1>>) THEN printed \cup {"unstable"}
                                            ELSE printed \cup {"courant"}
    /\ pc' = "alloc"
    /\ UNCHANGED <<pdefixed, i, fieldvars>>

\* 12:53, 13:52, 14:55  u = np.zeros((Nt + 1, Nx)); 13 has no stability check
FieldAlloc ==
    /\ prog \in PDEProgs
    /\ pc = "alloc" \/ (prog = "cn" /\ pc = "start")
    /\ u' = [k \in 1..(Nt + 1) |-> Zeros(Nx)]
    /\ writes' = [k \in 1..(Nt + 1) |-> [j \in 1..Nx |-> 0]]
    /\ pc' = "initial"
    /\ UNCHANGED <<pdefixed, i, printed, n, A, B>>

\* 12:57-58, 13:56-57, 14:59-60  u[0, i] = sin(pi * x[i] / L) for every i
InitialCondition ==
    /\ prog \in PDEProgs /\ pc = "initial"
    /\ u' = [u EXCEPT ![1] = profile]
    /\ i' = 1
    /\ pc' = IF prog = "wave" THEN "bootstrap" ELSE "boundary"
    /\ UNCHANGED <<pdefixed, printed, n, A, B, writes>>

\* 14:66-67  one pass of the loop that computes row 1, or its end
WaveBootstrap ==
    /\ prog = "wave" /\ pc = "bootstrap"
    /\ IF i < Nx - 1
       THEN /\ u' = SetCell(u, 1, i, wave_first(u, i))
            /\ writes' = SetCell(writes, 1, i, at(writes, 1, i) + 1)
            /\ i' = i + 1 /\ pc' = pc
       ELSE /\ pc' = "boundary" /\ UNCHANGED <<u, writes, i>>
    /\ UNCHANGED <<pdefixed, printed, n, A, B>>

\* BoundaryConditions without "u[:, -1] = 0"
BoundaryLeftOnly ==
    /\ prog \in PDEProgs /\ pc = "boundary"
    /\ u' = [k \in 1..(Nt + 1) |-> [u[k] EXCEPT ![1] = <<0, 1>>]]
    /\ n' = IF prog = "wave" THEN 1 ELSE 0
    /\ i' = 1
    /\ pc' = IF prog = "cn" THEN "matrices" ELSE "march"
    /\ UNCHANGED <<pdefixed, printed, A, B, writes>>

\* 12:62-63, 13:61-62, 14:71-72  u[:, 0] = 0; u[:, -1] = 0
BoundaryConditions ==
    /\ prog \in PDEProgs /\ pc = "boundary"
    /\ u' = [k \in 1..(Nt + 1) |->
                [u[k] EXCEPT ![1] = <<0, 1>>, ![Nx] = <<0, 1>>]]
    /\ n' = IF prog = "wave" THEN 1 ELSE 0
    /\ i' = 1
    /\ pc' = IF prog = "cn" THEN "matrices" ELSE "march"
    /\ UNCHANGED <<pdefixed, printed, A, B, writes>>

\* 12:68-70  one pass of the inner loop, or the end of the outer loop
FTCSStep ==
    /\ prog = "ftcs" /\ pc = "march"
    /\ IF n < Nt
       THEN /\ u' = SetCell(u, n + 1, i, ftcs_update(u, n, i))
            /\ writes' = SetCell(writes, n + 1, i, at(writes, n + 1, i) + 1)
            /\ n' = Advance(n, i)[1] /\ i' = Advance(n, i)[2]
            /\ pc' = pc
       ELSE /\ pc' = "after" /\ UNCHANGED <<u, writes, n, i>>
    /\ UNCHANGED <<pdefixed, printed, A, B>>

\* 14:76-79  one pass of the inner loop, or the end of the outer loop
WaveStep ==
    /\ prog = "wave" /\ pc = "march"
    /\ IF n < Nt
       THEN /\ u' = SetCell(u, n + 1, i, wave_update(u, n, i))
            /\ writes' = SetCell(writes, n + 1, i, at(writes, n + 1, i) + 1)
            /\ n' = Advance(n, i)[1] /\ i' = Advance(n, i)[2]
            /\ pc' = pc
       ELSE /\ pc' = "after" /\ UNCHANGED <<u, writes, n, i>>
    /\ UNCHANGED <<pdefixed, printed, A, B>>

\* 13:69-78  the matrices A and B of the Crank-Nicolson scheme
CNMatrices ==
    /\ prog = "cn" /\ pc = "matrices"
    /\ A' = Tridiag(Nx - 2, FDiv(FNeg(r), <<2, 1>>), FAdd(<<1, 1>>, r))
    /\ B' = Tridiag(Nx - 2, FDiv(r, <<2, 1>>), FSub(<<1, 1>>, r))
    /\ pc' = "march"
    /\ UNCHANGED <<pdefixed, i, printed, u, n, writes>>

\* u[k, 1:-1]
Interior(fld, k) == [j \in 1..(Nx - 2) |-> at(fld, k, j)]

\* 13:82-86  b = B.dot(u[n, 1:-1]); u[n+1, 1:-1] = spsolve(A, b); or the end
\* of the loop
CNStep ==
    /\ prog = "cn" /\ pc = "march"
    /\ IF n < Nt
       THEN /\ \E sol \in {Solve(A, MatVec(B, Interior(u, n)))} :
                 u' = [u EXCEPT ![n + 2] =
                          [j \in 1..Nx |-> IF 1 < j /\ j < Nx THEN sol[j - 1]
                                                             ELSE @[j]]]
            /\ writes' = [writes EXCEPT ![n + 2] =
                             [j \in 1..Nx |-> IF 1 < j /\ j < Nx THEN @[j] + 1
                                                                ELSE @[j]]]
            /\ n' = n + 1 /\ pc' = pc
       ELSE /\ pc' = "after" /\ UNCHANGED <<u, writes, n>>
    /\ UNCHANGED <<pdefixed, i, printed, A, B>>

\* ---------------------------------------------------------------- runs ----
\* before a script has run its first statement nothing is bound
Init ==
    /\ prog = "none" /\ pc = "params"
    /\ c1 = 0 /\ c0 = 0 /\ a = 0 /\ b = 0 /\ a0 = 0 /\ b0 = 0
    /\ Re = 0 /\ P = 0 /\ R = 0 /\ T = 0 /\ x0 = 0
    /\ tol = <<0, 1>> /\ max_iter = 0 /\ i = 0
    /\ x_n = 0 /\ x_next = 0 /\ fx_n = <<0, 1>> /\ fpx_n = <<0, 1>>
    /\ x_values = <<>> /\ f_values = <<>> /\ printed = {}
    /\ x_data = <<>> /\ y_data = <<>> /\ x = <<0, 1>> /\ result = <<0, 1>>
    /\ ode = "none" /\ u0 = <<0, 1>> /\ u_rk2 = [m \in DOMAIN methods |-> <<>>]
    /\ u_euler = <<>>
    /\ L = 0 /\ Nx = 0 /\ Nt = 0 /\ alpha = <<0, 1>> /\ c = <<0, 1>>
    /\ dx = <<0, 1>> /\ dt = <<0, 1>> /\ r = <<0, 1>> /\ profile = <<>>
    /\ u = <<>> /\ n = 0 /\ A = <<>> /\ B = <<>> /\ rhs = <<>> /\ u_interior = <<>>
    /\ writes = <<>>

\* what the parameter sections of the four scripts share
ParamsCommon ==
    /\ pc = "params" /\ pc' = "start"
    /\ tol' \in TolSet /\ max_iter' \in 1..MaxIter
    /\ a0' = a' /\ b0' = b'
    /\ UNCHANGED <<i, x_n, x_next, fx_n, fpx_n, x_values, f_values, printed>>
    /\ UNCHANGED rest

\* 02: f, the bracket [a, b], tol, max_iter
ParamsBisect ==
    /\ prog' = "bisect"
    /\ \E cub \in CubicSet : c1' = cub[1] /\ c0' = cub[2]
    /\ a' \in {1 * BScale, 2 * BScale}
    /\ b' \in {2 * BScale, 3 * BScale}
    /\ a' < b'
    /\ Re' = 0 /\ P' = 0 /\ R' = 0 /\ T' = 0 /\ x0' = 0
    /\ ParamsCommon

\* 10: f, f_prime, the initial guess x0, tol, max_iter
ParamsNewton ==
    /\ prog' = "newton"
    /\ \E cub \in CubicSet : c1' = cub[1] /\ c0' = cub[2]
    /\ x0' \in {(k * NScale) \div 2 : k \in 0..4}
    /\ a' = 0 /\ b' = 0 /\ Re' = 0 /\ P' = 0 /\ R' = 0 /\ T' = 0
    /\ ParamsCommon

\* 04: a, b, Re, a positive initial guess Cd0, tol, max_iter
ParamsDrag ==
    /\ prog' = "drag"
    /\ a' \in {(5 * NScale) \div 2}
    /\ b' \in {NScale \div 2, 10 * NScale}
    /\ Re' \in {10, 100}
    /\ x0' \in {1, NScale \div 2, NScale, 2 * NScale}
    /\ c1' = 0 /\ c0' = 0 /\ P' = 0 /\ R' = 0 /\ T' = 0
    /\ ParamsCommon

\* 05: P, T, a, b, R, an initial guess V0 > b, tol, max_iter
ParamsVdw ==
    /\ prog' = "vdw"
    /\ P' = 1 /\ R' = 1 /\ T' \in {1, 3}
    /\ a' \in {NScale, 2 * NScale}
    /\ b' \in {NScale \div 4, NScale}
    /\ x0' \in {b' + 1, NScale, 2 * NScale, 4 * NScale}
    /\ x0' > b'
    /\ c1' = 0 /\ c0' = 0 /\ Re' = 0
    /\ ParamsCommon

\* 01: the nodes (x_data, y_data) and the point x of one call
ParamsLagrange ==
    /\ pc = "params" /\ pc' = "start" /\ prog' = "lagrange"
    /\ \E m \in 2..MaxNodes :
          /\ x_data' \in SeqsOf(NodeSet, m)
          /\ y_data' \in SeqsOf(ValueSet, m)
    /\ x' \in QuerySet
    /\ UNCHANGED <<rootvars, b, T, i, printed, result, odevars, gridvars,
                   fieldvars>>

\* 08: f, T, Nt, u0 and dt = T / Nt
ParamsRK2 ==
    /\ pc = "params" /\ pc' = "start" /\ prog' = "rk2"
    /\ ode' \in OdeSet
    /\ T' \in {1, 2} /\ Nt' \in 1..MaxNt
    /\ u0' \in {<<1, 1>>, <<0, 1>>, <<-1, 2>>}
    /\ dt' = Norm(T', Nt')
    /\ UNCHANGED <<rootvars, b, i, printed, lagvars, u_rk2, u_euler, L, Nx,
                   alpha, c,
                   dx, r, profile, fieldvars>>

\* 07: T, Nt, u0, dt = T / Nt and f
ParamsMEuler ==
    /\ pc = "params" /\ pc' = "start" /\ prog' = "meuler"
    /\ ode' \in OdeSet
    /\ T' \in {1, 2} /\ Nt' \in 1..MaxNt
    /\ u0' \in {<<1, 1>>, <<0, 1>>, <<-1, 2>>}
    /\ dt' = Norm(T', Nt')
    /\ UNCHANGED <<rootvars, b, i, printed, lagvars, u_rk2, u_euler, L, Nx,
                   alpha, c, dx, r, profile, fieldvars>>

\* the thermal diffusivities of a run (0.01 in the scripts)
AlphaSet == {<<0, 1>>, <<1, 2>>, <<3, 5>>, <<2, 1>>}

\* the wave speeds of a run (1.0 in the script)
SpeedSet == {<<1, 1>>, <<2, 1>>, <<3, 1>>}

\* the values of sin(pi * x / L) on the grid: 0 at x = 0, the rounding
\* residue of sin(pi) at x = L (1.2e-16 in the scripts), anything between
ProfileSet(m) ==
    {<<<<0, 1>>>> \o mid \o <<last>> :
        mid \in SeqsOf({<<-1, 2>>, <<1, 1>>, <<3, 2>>}, m - 2),
        last \in {<<0, 1>>, <<1, 16>>}}

\* 12:29-41, 13:31-43, 14:28-40  grid sizes, lengths, dx = L / (Nx - 1),
\* dt = T / Nt; the grids are taken with spacing 1 or 2 and time step 1
ParamsGrid ==
    /\ pc = "params" /\ pc' = "start"
    /\ Nx' \in 3..MaxNx /\ Nt' \in 2..MaxNt
    /\ L' \in {Nx' - 1, 2 * (Nx' - 1)} /\ T' = Nt'
    /\ dx' = Norm(L', Nx' - 1) /\ dt' = Norm(T', Nt')
    /\ profile' \in ProfileSet(Nx')
    /\ UNCHANGED <<rootvars, b, i, printed, lagvars, odevars, fieldvars>>

\* 12:33, 12:41  alpha and r = alpha * dt / (dx ** 2)
ParamsFTCS ==
    /\ prog' = "ftcs" /\ ParamsGrid
    /\ alpha' \in AlphaSet /\ c' = c
    /\ r' = FDiv(FMul(alpha', dt'), FMul(dx', dx'))

\* 13:35, 13:43  alpha and r = alpha * dt / (dx ** 2)
ParamsCN ==
    /\ prog' = "cn" /\ ParamsGrid
    /\ alpha' \in {<<0, 1>>, <<2, 1>>} /\ c' = c
    /\ r' = FDiv(FMul(alpha', dt'), FMul(dx', dx'))

\* 11:25-39  L, Nx, dx = L / (Nx - 1) and the source term f on the grid
ParamsBVP ==
    /\ pc = "params" /\ pc' = "start" /\ prog' = "bvp"
    /\ Nx' \in 3..MaxNx
    /\ L' \in {1, 2, Nx' - 1}
    /\ dx' = Norm(L', Nx' - 1)
    /\ profile' \in ProfileSet(Nx')
    /\ UNCHANGED <<rootvars, b, T, i, printed, lagvars, odevars, Nt, alpha,
                   c, dt, r, fieldvars>>

\* 14:30, 14:40  c and r = c * dt / dx
ParamsWave ==
    /\ prog' = "wave" /\ ParamsGrid
    /\ c' \in SpeedSet /\ alpha' = alpha
    /\ r' = FDiv(FMul(c', dt'), dx')

Next ==
    \/ ParamsBisect \/ ParamsNewton \/ ParamsDrag \/ ParamsVdw
    \/ BisectCheck \/ BisectMid \/ BisectTest
    \/ NRInit \/ NREval \/ NRUpdate \/ NRRecord \/ NRCheck
    \/ ParamsLagrange
    \/ LagrangeCall \/ LagrangeTerm \/ LagrangeReturn
    \/ ParamsRK2 \/ RK2Init \/ RK2Step
    \/ ParamsMEuler \/ MEulerInit \/ MEulerStep
    \/ ParamsBVP \/ BVPRhs \/ BVPMatrix \/ BVPSolve \/ BVPAssemble
    \/ ParamsFTCS \/ ParamsCN \/ ParamsWave
    \/ CNMatrices \/ CNStep
    \/ HeatStability \/ WaveStability \/ FieldAlloc \/ InitialCondition
    \/ WaveBootstrap \/ BoundaryConditions \/ FTCSStep \/ WaveStep
    \/ After

Spec == Init /\ [][Next]_vars

\* the same runs, with the interpreter always taking its next step
FairSpec == Spec /\ WF_vars(Next)

\* ============================================================ claims ====
Stopped == pc \in {"after", "done"}

Last(s) == s[Len(s)]

\* num/d < t for num >= 0, d > 0 and a fraction t = t1/t2 > 0:
\* num * t2 < t1 * d, decided on the quotient and remainder of t1*d by t2
LtFrac(num, d, t) ==
    LET m == t[1] * d
    IN  num < m \div t[2] \/ (num = m \div t[2] /\ m % t[2] > 0)

\* |fr| < t for a function value fr
Small(fr, t) == LtFrac(Abs(fr[1]), fr[2], t)

\* ------------------------------------------------------------ bisection --
\* the initial endpoints have f-values of the same sign, or one is zero
SameSignAtStart ==
    Sgn(f(a0, BScale)[1]) * Sgn(f(b0, BScale)[1]) >= 0

\* C1: when f(a)*f(b) >= 0 at the start, bisection reports the precondition
\* error and attempts no iteration: the process is at the exit() of line
\* 40, no midpoint was computed (x_n unbound, the bracket and the loop
\* index untouched) and the iteration trace is empty; and the error is
\* reported in no other case.
C1_PreconditionNoIteration ==
    prog = "bisect" =>
        /\ (SameSignAtStart /\ pc # "start") =>
              /\ pc = "exited"
              /\ printed = {"precondition"}
              /\ x_values = <<>> /\ f_values = <<>>
              /\ i = 0 /\ x_n = 0 /\ a = a0 /\ b = b0
        /\ "precondition" \in printed => SameSignAtStart

\* a run rejected because f is zero at the upper endpoint
C1_Witness ==
    /\ prog = "bisect" /\ pc = "exited"
    /\ f(b0, BScale)[1] = 0 /\ f(a0, BScale)[1] # 0

\* C2 (as stated): whenever bisection reports a root r, the last recorded
\* midpoint, |f(r)| < tol.  Every f of CubicSet is monotone on [1, 3].
C2_Original ==
    (prog = "bisect" /\ "root" \in printed) =>
        Small(f(Last(x_values), BScale), tol)

\* C2 (amended): whenever bisection reports a root r, r is the last
\* recorded midpoint, the midpoint of the current bracket [a, b], and
\* |f(r)| < tol or the half-width (b - a)/2 of that bracket is < tol.
C2_RootResidualOrWidth ==
    (prog = "bisect" /\ "root" \in printed) =>
        /\ Len(x_values) > 0 /\ Last(x_values) = x_n
        /\ 2 * x_n = a + b
        /\ Last(f_values) = f(x_n, BScale)
        /\ \/ Small(f(x_n, BScale), tol)
           \/ LtFrac(b - a, 2 * BScale, tol)

\* a root reported on the half-width alone, with |f(r)| >= tol
C2_Witness ==
    /\ prog = "bisect" /\ "root" \in printed
    /\ ~Small(f(Last(x_values), BScale), tol)
    /\ LtFrac(b - a, 2 * BScale, tol)

\* C3: at the k-th iteration (k = i + 1) the half-width (b - a)/2 tested by
\* the stop condition is at most ((b0 - a0)/2) / 2^(k-1), also at the final
\* iterate of a run.
C3_HalfWidthBound ==
    (prog = "bisect" /\ (pc = "test" \/ (Stopped /\ "root" \in printed))) =>
        (b - a) * 2 ^ i <= b0 - a0

\* a run that stopped on its third or a later midpoint
C3_Witness ==
    prog = "bisect" /\ Stopped /\ "root" \in printed /\ i >= 2

\* the stop condition at the j-th recorded midpoint: |f(m_j)| < tol, or the
\* half-width of the j-th bracket, (b0 - a0) / 2^j, is < tol
SatisfiedAt(j) ==
    \/ Small(f_values[j], tol)
    \/ LtFrac(b0 - a0, (2 ^ j) * BScale, tol)

\* C4: a bisection run with a valid bracket stops at the first iteration
\* whose midpoint satisfies the stop condition and reports a root there;
\* if none does it performs exactly max_iter iterations and reports
\* non-convergence; it never reports both and never iterates past the
\* first satisfying midpoint.
C4_FirstSatisfiedWins ==
    (prog = "bisect" /\ ~SameSignAtStart) =>
        /\ Len(x_values) <= max_iter
        /\ \A j \in 1..Len(x_values) :
              SatisfiedAt(j) =>
                  /\ j = Len(x_values)
                  /\ pc = "test" \/ (Stopped /\ printed = {"root"})
        /\ "root" \in printed =>
              /\ Stopped /\ printed = {"root"}
              /\ Len(x_values) > 0 /\ SatisfiedAt(Len(x_values))
        /\ "noconv" \in printed =>
              /\ Stopped /\ printed = {"noconv"}
              /\ Len(x_values) = max_iter /\ i = max_iter
              /\ \A j \in 1..Len(x_values) : ~SatisfiedAt(j)
        /\ Stopped => printed \in {{"root"}, {"noconv"}}
        /\ ~Stopped => printed = {}

\* a run that stopped on the residual while the half-width was still >= tol,
\* after at least one unsatisfied midpoint
C4_Witness ==
    /\ prog = "bisect" /\ printed = {"root"} /\ Len(x_values) >= 2
    /\ ~LtFrac(b - a, 2 * BScale, tol)

\* ------------------------------------------------------- Newton-Raphson --
\* C5: in every Newton-Raphson loop, if |f'(x_n)| < 1e-10 at the start of
\* an iteration the run aborts at once with the degenerate-derivative
\* outcome: the quotient is not formed (x_next keeps its value and the
\* update is reached only with a derivative that passed the test), nothing
\* is appended, no further iteration runs, and neither success nor
\* non-convergence is reported.
C5_DegenerateAborts ==
    /\ [][(/\ prog \in NRProgs /\ pc = "head" /\ i < max_iter
           /\ AbsLtPow10(FPrime(x_n), DerivTolExp))
          => (/\ pc' = "after" /\ printed' = {"degenerate"}
              /\ UNCHANGED <<x_n, x_next, i, x_values, f_values>>)]_vars
    /\ []("degenerate" \in printed =>
            /\ Stopped /\ printed = {"degenerate"}
            /\ AbsLtPow10(fpx_n, DerivTolExp)
            /\ Len(x_values) = i + 1 /\ Len(f_values) = i + 1)
    /\ [](prog \in NRProgs =>
            /\ pc # "crashed"
            /\ pc = "update" => ~AbsLtPow10(fpx_n, DerivTolExp))

\* a run aborted on a zero derivative after at least one full iteration
C5_Witness ==
    prog \in NRProgs /\ "degenerate" \in printed /\ i >= 1

\* the validity predicate of the guarded scripts: Cd > 0, V > b
InDomain(k) == IF prog = "drag" THEN k > 0 ELSE k > b

\* C6: in the guarded runs (drag, vdw) a computed next iterate that
\* violates the validity predicate aborts the run with the
\* left-valid-domain outcome before it is recorded: every iterate the loop
\* appended satisfies the predicate, and at the abort the trace is the
\* initial guess followed by the iterates of the i completed iterations.
C6_GuardBeforeRecord ==
    prog \in {"drag", "vdw"} =>
        /\ \A j \in 2..Len(x_values) : InDomain(x_values[j])
        /\ pc \in {"record", "check"} => InDomain(x_next)
        /\ "domain" \in printed =>
              /\ Stopped /\ printed = {"domain"}
              /\ ~InDomain(x_next)
              /\ Len(x_values) = i + 1 /\ Len(f_values) = i + 1
              /\ x_values[1] = x0 /\ Last(x_values) = x_n
              /\ x_next \notin {x_values[j] : j \in 1..Len(x_values)}

\* a run that left the domain after at least one recorded iterate
C6_Witness ==
    prog \in {"drag", "vdw"} /\ "domain" \in printed /\ i >= 1

\* the convergence condition on an iterate k and its successor kn
ConvPred(k, kn) ==
    Small(F(kn), tol) \/ LtFrac(Abs(kn - k), NScale, tol)

\* the part of C7 that holds of all three loops: no iteration follows a
\* recorded iterate that satisfies the condition, convergence is reported
\* there, and only there
ConvergedAtFirstRecorded ==
    /\ \A j \in 1..(Len(x_values) - 1) :
          ConvPred(x_values[j], x_values[j + 1]) =>
              /\ j + 1 = Len(x_values)
              /\ pc = "check" \/ (Stopped /\ printed = {"converged"})
    /\ "converged" \in printed =>
          /\ Stopped /\ printed = {"converged"}
          /\ Len(x_values) = i + 2 /\ Last(x_values) = x_next
          /\ ConvPred(x_values[i + 1], x_values[i + 2])

\* C7 (as stated): convergence is reported at the first iteration whose new
\* iterate x_next = x_n - f(x_n)/f'(x_n) satisfies the condition, and at no
\* other; afterwards no further iterate is computed.  At a stop on the
\* domain guard x_next is the new iterate of the last iteration.
C7_Original ==
    prog \in NRProgs =>
        /\ ConvergedAtFirstRecorded
        /\ ("domain" \in printed /\ ConvPred(x_n, x_next)) =>
              "converged" \in printed

\* C7 (amended): convergence is reported at the first iteration whose new
\* iterate is recorded (it passed the domain guard, where the script has
\* one) and satisfies the condition, and at no other; afterwards no
\* further iterate is computed.  A new iterate the guard rejects reports
\* left-valid-domain and never convergence.
C7_ConvergedAtFirstRecorded ==
    prog \in NRProgs =>
        /\ ConvergedAtFirstRecorded
        /\ "domain" \in printed => "converged" \notin printed

\* a run that converged on its second or a later iterate
C7_Witness ==
    prog \in NRProgs /\ "converged" \in printed /\ i >= 1

NROutcomes == {"converged", "degenerate", "domain", "noconv"}

\* C8: every Newton-Raphson run terminates after at most max_iter loop
\* iterations and reports exactly one of the four outcomes; "did not
\* converge" is reported exactly when all max_iter iterations ran without
\* any of the other three.
C8_OneOutcome ==
    /\ [](prog \in NRProgs =>
            /\ i <= max_iter /\ pc # "crashed"
            /\ printed \subseteq NROutcomes
            /\ Stopped => Cardinality(printed) = 1
            /\ ~Stopped => printed = {}
            /\ "noconv" \in printed <=> (Stopped /\ i = max_iter)
            /\ "noconv" \in printed => Len(x_values) = max_iter + 1)
    /\ (prog \in NRProgs) ~> (pc = "done")

\* a finished run that used up all its iterations
C8_Witness ==
    prog \in NRProgs /\ pc = "done" /\ printed = {"noconv"} /\ i >= 2

\* ---------------------------------------------------------- both finders --
AppendOnly ==
    [][IsPrefix(x_values, x_values') /\ IsPrefix(f_values, f_values')]_vars

\* C9 (as stated): the iteration trace is append-only, its two lists have
\* equal length, and its length never exceeds max_iter.
C9_Original ==
    /\ AppendOnly
    /\ [](Len(x_values) = Len(f_values) /\ Len(x_values) <= max_iter)

\* C9 (amended): the iteration trace is append-only, its two lists have
\* equal length, and its length never exceeds max_iter for bisection and
\* max_iter + 1 for Newton-Raphson, whose trace starts with the initial
\* guess.
C9_TraceBounded ==
    /\ AppendOnly
    /\ [](/\ Len(x_values) = Len(f_values)
          /\ prog = "bisect" => Len(x_values) <= max_iter
          /\ prog \in NRProgs => Len(x_values) <= max_iter + 1)

\* a Newton-Raphson trace of full length
C9_Witness ==
    prog \in NRProgs /\ Len(x_values) = max_iter + 1 /\ max_iter >= 2

Failures == {"precondition", "degenerate", "domain", "noconv"}

\* C10: no failure terminates the process: once a failure is reported,
\* control is in the code after the iteration (or beyond it).
C10_NoProcessExit ==
    (printed \cap Failures # {}) => Stopped

\* ------------------------------------------------ C11, C12: Lagrange ----
\* the nodes are pairwise distinct
Distinct(xs) == \A j, k \in 1..Len(xs) : j # k => xs[j] # xs[k]

\* C11: for pairwise distinct nodes, the interpolant evaluated at node k is
\* y_data[k]: while the sum is formed, every basis term other than the k-th
\* adds 0 and the k-th adds y_data[k], and the value returned is y_data[k].
C11_NodeValueReproduced ==
    (prog = "lagrange" /\ pc \in {"basis", "after", "done"}
        /\ Distinct(x_data)) =>
        \A k \in 1..Len(x_data) :
            x = x_data[k] =>
                /\ result = IF i >= k THEN y_data[k] ELSE <<0, 1>>
                /\ Stopped => i = Len(x_data)

C11_Witness ==
    /\ prog = "lagrange" /\ Stopped /\ Distinct(x_data)
    /\ Len(x_data) = MaxNodes /\ x = x_data[2]
    /\ \A k \in 1..MaxNodes : y_data[k] # <<0, 1>>
    /\ result = y_data[2]

\* C12: with a duplicate among the nodes the call reports the violated
\* precondition at once: no basis term is ever accumulated and no numeric
\* result is returned.
C12_DuplicateReportedAtOnce ==
    (prog = "lagrange" /\ ~Distinct(x_data)) =>
        /\ pc # "start" => "precondition" \in printed
        /\ i = 0
        /\ ~Stopped

\* ------------------------------------------------------ C13: RK2 table ----
\* the order conditions of a two-stage scheme of order two
SecondOrder(m) ==
    /\ FAdd(methods[m].b1, methods[m].b2) = <<1, 1>>
    /\ FMul(methods[m].b2, methods[m].c2) = <<1, 2>>
    /\ methods[m].a21 = methods[m].c2

\* u(t + h) for du/dt = t and for du/dt = 1, from u(t) = v
ExactStep(t, v, h) ==
    IF ode = "t" THEN FAdd(v, FAdd(FMul(h, t), FMul(<<1, 2>>, FMul(h, h))))
                 ELSE FAdd(v, h)

\* C13: every scheme of the coefficient table satisfies b1 + b2 = 1,
\* b2*c2 = 1/2 and a21 = c2, and every step it has taken on du/dt = t or
\* du/dt = 1 is exact.
C13_TableSecondOrder ==
    (prog = "rk2" /\ n >= 1) =>
        \A m \in DOMAIN methods :
            /\ SecondOrder(m)
            /\ ode \in {"t", "one"} =>
                  \A k \in 1..n :
                      u_rk2[m][k + 1] = ExactStep(t_grid(k - 1), u_rk2[m][k], dt)

\* ------------------------------------------- C14, C15: stability, FTCS ----
\* num1/den1 > num2/den2 for positive denominators
GtFrac(num1, den1, num2, den2) == num1 * den2 > num2 * den1

\* alpha * dt / dx^2 > 1/2, from the parameters
HeatRatioOverHalf ==
    GtFrac(alpha[1] * dt[1] * dx[2] * dx[2], alpha[2] * dt[2] * dx[1] * dx[1],
           1, 2)

\* c * dt / dx > 1, from the parameters
CourantOverOne == GtFrac(c[1] * dt[1] * dx[2], c[2] * dt[2] * dx[1], 1, 1)

\* C14: the heat marcher reports a stability violation exactly when
\* alpha*dt/dx^2 > 0.5 and the wave marcher exactly when c*dt/dx > 1; a ratio
\* exactly on the bound is not flagged, and r = 0.6 is flagged in FTCS.
C14_FlaggedIffOverBound ==
    /\ (prog = "ftcs" /\ pc # "start") =>
          /\ "unstable" \in printed <=> HeatRatioOverHalf
          /\ r = <<1, 2>> => "unstable" \notin printed
          /\ r = <<3, 5>> => "unstable" \in printed
    /\ (prog = "wave" /\ pc # "start") =>
          /\ "unstable" \in printed <=> CourantOverOne
          /\ r = <<1, 1>> => "unstable" \notin printed
    /\ (prog \in {"ftcs", "wave"} /\ pc = "start") => "unstable" \notin printed

C14_Witness ==
    /\ prog = "ftcs" /\ pc = "alloc" /\ r = <<1, 2>> /\ alpha = <<2, 1>>
    /\ "unstable" \notin printed

\* max_i |u[k, i]| <= max_i |u[m, i]|
MaxNormLe(k, m) ==
    \A j \in 0..(Nx - 1) :
        \E j2 \in 0..(Nx - 1) : FLe(FAbs(at(u, k, j)), FAbs(at(u, m, j2)))

\* C15: with 0 <= r <= 0.5 and zero boundary values no FTCS step lets the
\* largest absolute value of the field grow, r = 0.5 included.
C15_MaxNormNeverGrows ==
    (prog = "ftcs" /\ pc \in {"march", "after", "done"}
        /\ FLe(<<0, 1>>, r) /\ FLe(r, <<1, 2>>)) =>
        \A k \in 0..(Nt - 1) : MaxNormLe(k + 1, k)

C15_Witness ==
    /\ prog = "ftcs" /\ Stopped /\ r = <<1, 2>>
    /\ Nt = MaxNt /\ Nx = MaxNx
    /\ \E j \in 1..(Nx - 2) : at(u, Nt, j) # <<0, 1>>
    /\ \A k \in 0..(Nt - 1) : MaxNormLe(k + 1, k)

Rows == 0..Nt
Cols == 0..(Nx - 1)
InteriorCols == 1..(Nx - 2)

\* the stepping rule (the first-step rule of the wave script included)
\* writes in this step
StepWrites == prog \in PDEProgs /\ pc \in {"bootstrap", "march"} /\ writes' # writes

\* the cell (k, j) is written in this step
WrittenNow(k, j) == at(writes', k, j) # at(writes, k, j)

\* row k is complete: row 0, or every interior cell written once
RowFilled(k) == k = 0 \/ \A j \in InteriorCols : at(writes, k, j) = 1

\* the value written at (k, j) is the scheme's function of rows k-1 and k-2
\* of the field as it is before the step
WrittenFromBelow(k) ==
    CASE prog = "ftcs" ->
            \A j \in InteriorCols : WrittenNow(k, j) =>
                at(u', k, j) = FAdd(at(u, k - 1, j),
                                    FMul(r, Laplacian(u, k - 1, j)))
      [] prog = "cn" ->
            MatVec(A, [j \in InteriorCols |-> at(u', k, j)])
                = MatVec(B, [j \in InteriorCols |-> at(u, k - 1, j)])
      [] OTHER ->
            \A j \in InteriorCols : WrittenNow(k, j) =>
                at(u', k, j) =
                    IF k = 1
                    THEN FAdd(at(u, 0, j),
                              FMul(FMul(<<1, 2>>, FMul(r, r)),
                                   Laplacian(u, 0, j)))
                    ELSE FAdd(FSub(FMul(<<2, 1>>, at(u, k - 1, j)),
                                   at(u, k - 2, j)),
                              FMul(FMul(r, r), Laplacian(u, k - 1, j)))

\* a write of the stepping rule goes to interior cells of one row k, none of
\* them written before; rows k-1 (and k-2 for the wave) are complete, no row
\* above k has been written, nothing else of the field changes
StepInOrder ==
    StepWrites =>
        \E k \in 1..Nt :
            /\ \A m \in Rows, j \in Cols :
                  IF WrittenNow(m, j)
                  THEN /\ m = k /\ j \in InteriorCols
                       /\ at(writes, m, j) = 0 /\ at(writes', m, j) = 1
                  ELSE at(u', m, j) = at(u, m, j)
            /\ RowFilled(k - 1)
            /\ (prog = "wave" /\ k >= 2) => RowFilled(k - 2)
            /\ \A m \in (k + 1)..Nt, j \in Cols : at(writes, m, j) = 0
            /\ WrittenFromBelow(k)

\* an interior cell that a step does not write keeps its value from the
\* initial condition on, so a cell of a complete row holds its final value
InteriorFinal ==
    (prog \in PDEProgs /\ pc \in {"bootstrap", "boundary", "matrices", "march",
                                  "after"}) =>
        \A m \in Rows, j \in InteriorCols :
            ~WrittenNow(m, j) => at(u', m, j) = at(u, m, j)

\* in the completed field every interior cell of rows 1..Nt was written once
AllWrittenOnce ==
    (prog \in PDEProgs /\ Stopped) =>
        \A m \in 1..Nt, j \in Cols :
            at(writes, m, j) = IF j \in InteriorCols THEN 1 ELSE 0

\* C17: in the three marchers rows are filled in increasing order: a write to
\* row n+1 finds rows n (and n-1 for the wave) complete and final, computes
\* from those rows only, no row above n+1 has been written, and every
\* interior cell is written exactly once.
C17_RowsInIncreasingOrder ==
    /\ [][StepInOrder /\ InteriorFinal]_vars
    /\ [](AllWrittenOnce)

C17_Witness ==
    /\ prog = "wave" /\ Stopped /\ Nt = MaxNt /\ Nx = MaxNx
    /\ \A m \in 1..Nt, j \in InteriorCols :
          at(writes, m, j) = 1 /\ at(u, m, j) # <<0, 1>>

\* a boundary cell or a cell of row 0
FrameCell(m, j) == m = 0 \/ j = 0 \/ j = Nx - 1

\* C18: a step of the time-stepping rule changes interior cells of rows
\* 1..Nt only, row 0 and the two boundary columns are left as they are, and
\* in the completed field every boundary cell is 0.
C18_StepsMutateInteriorOnly ==
    /\ [][(prog \in PDEProgs /\ pc \in {"bootstrap", "march"}) =>
            \A m \in Rows, j \in Cols :
                FrameCell(m, j) =>
                    at(u', m, j) = at(u, m, j) /\ ~WrittenNow(m, j)]_vars
    /\ []((prog \in PDEProgs /\ Stopped) =>
            \A m \in Rows : at(u, m, 0) = <<0, 1>> /\ at(u, m, Nx - 1) = <<0, 1>>)

C18_Witness ==
    /\ prog = "cn" /\ Stopped /\ Nt = MaxNt /\ Nx = MaxNx
    /\ profile[Nx] # <<0, 1>>
    /\ \A m \in Rows : at(u, m, 0) = <<0, 1>> /\ at(u, m, Nx - 1) = <<0, 1>>
    /\ \A m \in Rows, j \in InteriorCols : at(u, m, j) # <<0, 1>>

\* row 0 and the boundary columns hold their initial and boundary values
Initialized ==
    /\ pc \in {"matrices", "march", "after", "done"}
    /\ \A j \in InteriorCols : at(u, 0, j) = profile[j + 1]
    /\ \A m \in Rows : at(u, m, 0) = <<0, 1>> /\ at(u, m, Nx - 1) = <<0, 1>>

\* C19: in every marcher a cell of rows 1..Nt, the first-step row of the
\* wave script included, is written only after row 0 and the boundary
\* columns have been set.
C19_InitializedBeforeFirstWrite ==
    (prog \in PDEProgs /\ pc \notin {"params", "start", "alloc"}) =>
        ((\E m \in 1..Nt, j \in Cols : at(writes, m, j) > 0) => Initialized)

\* ------------------------------------------- C20: the bisection bracket ----
\* sign of f at the grid point k of the bisection grid
SignAt(k) == Sgn(k * k * k - c1 * k * BScale * BScale
                    - c0 * BScale * BScale * BScale)

\* the loop is running or has been left, after a bracket with a sign change
Bracketing ==
    /\ prog = "bisect" /\ pc \in {"loop", "test", "after", "done"}
    /\ SignAt(a0) * SignAt(b0) < 0

\* an interval update: the step of the stop test that goes on to the next pass
IntervalUpdate == Bracketing /\ pc = "test" /\ pc' = "loop"

\* C20: from f(a0)*f(b0) < 0 and tol > 0, after any number of interval
\* updates a0 <= a < b <= b0 and f(a)*f(b) < 0, and an update replaces
\* exactly one endpoint by the midpoint, the one whose f-value has the sign
\* of f(midpoint), and leaves the other alone.
C20_BracketKept ==
    /\ [](Bracketing =>
            /\ tol[1] > 0
            /\ a0 <= a /\ a < b /\ b <= b0
            /\ SignAt(a) * SignAt(b) < 0)
    /\ [][IntervalUpdate =>
            /\ 2 * x_n = a + b
            /\ \/ a' = x_n /\ b' = b /\ SignAt(a) = SignAt(x_n)
               \/ b' = x_n /\ a' = a /\ SignAt(b) = SignAt(x_n)]_vars

C20_Witness ==
    /\ Bracketing /\ pc = "loop" /\ i >= 2
    /\ a0 < a /\ b < b0

\* ------------------------------------- C21: modified Euler and Heun ----
\* C21: from the same u0, on the same grid and with the same f, the trace
\* of the modified Euler loop equals the trace the RK2 loop computes with
\* scheme 'heun', at every index filled so far (all of 0..Nt at the end);
\* and the 'heun' trace of an RK2 run equals what the modified Euler loop
\* computes from that run's u0, grid and f.
C21_EulerTraceIsHeunTrace ==
    /\ (prog = "meuler" /\ pc # "start") =>
          \A k \in 0..n : u_euler[k + 1] = heun_trace(k)
    /\ (prog = "rk2" /\ pc # "start") =>
          \A k \in 0..n : u_rk2.heun[k + 1] = euler_trace(k)

\* a modified Euler run of the script's f has filled u[0..Nt], Nt = MaxNt,
\* and the trace has moved away from u0
C21_Witness ==
    /\ prog = "meuler" /\ pc = "after" /\ ode = "script"
    /\ n = Nt /\ Nt = MaxNt
    /\ u_euler[Nt + 1] # u0
    /\ u_euler[Nt + 1] = heun_trace(Nt)

====
